---- MODULE Spec2Model ----
(***************************************************************************)
(* A state-machine model of main.py, the Reddit user downloader: the batch *)
(* loop of main(), download_user_activity(), the windowed iterators        *)
(* iter_user_posts / iter_user_comments and the flat text stores           *)
(* (visited_users.txt, timeouts_users.txt, visited_subs.txt, new_subs.txt).*)
(*                                                                         *)
(* Python strings are sequences of one-character strings, so that strip(), *)
(* lower() and the "u/" / "r/" prefix removal are computed, not assumed.   *)
(* A text file is the sequence of its lines.  Optional[int] is <<>> (None) *)
(* or <<k>>.                                                               *)
(***************************************************************************)
EXTENDS Integers, Sequences, FiniteSets, TLC

VARIABLES
    pc,               \* position of main() / download_user_activity()
    args,             \* the parsed command line (argparse namespace)
    users,            \* the queue of identities, main.py:679-687
    i,                \* 1-based index of the for loop, main.py:699
    visited_override, \* main.py:692-696
    VISITED_EXISTS,   \* whether visited_users.txt exists on disk
    VISITED_FILE,     \* lines of visited_users.txt   (processed store)
    TIMEOUTS_FILE,    \* lines of timeouts_users.txt  (failed store)
    VISITED_SUBS_FILE,\* lines of visited_subs.txt    (exclusion list)
    NEW_SUBS_FILE,    \* lines of new_subs.txt        (discovery log)
    visited_subs,     \* main()'s set loaded by load_visited_subs()
    new_subs_seen,    \* main()'s set loaded by load_existing_new_subs()
    remote,           \* the listings the remote service can serve in this run
    d_seen,           \* download_user_activity's binding of new_subs_seen
    d_shared,         \* TRUE iff that binding is main()'s own set object
    logged_new_subs,  \* main.py:448
    posts_file,       \* main.py:458, <<>> or <<path>>
    cmts_file,        \* main.py:459, <<>> or <<path>>
    outfiles,         \* output directory: path -> content
    open_files,       \* paths with an open, unclosed stream
    cls,              \* the item class being harvested
    feed,             \* the listing being iterated, newest first
    pos,              \* number of feed items the iterator has fetched
    count,            \* the iterator's count
    pstate,           \* the iterator's state
    emitted,          \* feed positions the iterator has yielded
    stats,            \* per class: items written / excluded / dropped
    outcome,          \* per queue index: how the loop left that identity
    appended,         \* categories appended to new_subs.txt, in call order
    calls,            \* the arguments of the direct calls of a function, in call order
    ret,              \* the value the last direct call returned
    detect_langs_func,\* main.py:659, <<>> (None) or the langdetect function
    hunspell_obj      \* main.py:660, <<>> (None) or the HunSpell object

mainVars  == <<args, users, i, visited_override>>
storeVars == <<VISITED_EXISTS, VISITED_FILE, TIMEOUTS_FILE>>
subVars   == <<VISITED_SUBS_FILE, NEW_SUBS_FILE, visited_subs, new_subs_seen, appended>>
dlVars    == <<d_seen, d_shared, logged_new_subs, posts_file, cmts_file,
               outfiles, open_files, cls, stats>>
pagVars   == <<feed, pos, count, pstate, emitted>>
langVars  == <<detect_langs_func, hunspell_obj>>
vars      == <<pc, mainVars, storeVars, subVars, remote, dlVars, pagVars, outcome, calls,
               ret, langVars>>

(***************************************************************************)
(* Bounds of the model.                                                    *)
(***************************************************************************)
MaxQueue   == 2   \* longest queue of identities of the batch runs
MaxFeedLen == 3   \* longest listing given to the iterators alone
MaxTime    == 3   \* timestamps are 1..MaxTime
MaxCalls   == 3   \* direct calls of one run of a function alone
MaxStr     == 4   \* longest argument string of _norm_user / _norm_sub alone
ScoreDen   == 4   \* scores and thresholds are the fractions k/ScoreDen
MaxWords   == 5   \* most qualifying words of a text, the texts at the cap apart

(***************************************************************************)
(* Python values.                                                          *)
(***************************************************************************)
None       == <<>>
Some(x)    == <<x>>
IsNone(o)  == o = <<>>
Val(o)     == o[1]

\* str.lower() on one character of the model's alphabet
LowerChar(c) ==
    CASE c = "F" -> "f"
      [] c = "G" -> "g"
      [] c = "U" -> "u"
      [] c = "R" -> "r"
      [] c = "A" -> "a"
      [] c = "B" -> "b"
      [] OTHER   -> c

lower(s) == [k \in 1..Len(s) |-> LowerChar(s[k])]

\* str.strip(): what lies between the first and the last non-blank character
strip(s) ==
    LET solid == {k \in 1..Len(s) : s[k] # " "}
    IN  IF solid = {} THEN <<>>
        ELSE SubSeq(s, CHOOSE a \in solid : \A k \in solid : a <= k,
                       CHOOSE b \in solid : \A k \in solid : b >= k)

startswith(s, p) == Len(s) >= Len(p) /\ SubSeq(s, 1, Len(p)) = p

\* s[2:]
From2(s) == SubSeq(s, 3, Len(s))

Range(s) == {s[k] : k \in 1..Len(s)}

\* main.py:34-38
_norm_user(name) ==
    LET n == strip(name)
    IN  lower(IF startswith(lower(n), <<"u", "/">>) THEN From2(n) ELSE n)

\* main.py:66-70
_norm_sub(name) ==
    LET n == strip(name)
    IN  lower(IF startswith(lower(n), <<"r", "/">>) THEN From2(n) ELSE n)

(***************************************************************************)
(* The text stores.                                                        *)
(***************************************************************************)
\* {x.strip() for x in FILE.read_text().splitlines() if x.strip()}
StrippedLines(file) == {strip(file[k]) : k \in {j \in 1..Len(file) : strip(file[j]) # <<>>}}

\* a lookup of the spelling as queued, not of its canonical form
is_visited_as_spelled(username, file) == strip(username) \in StrippedLines(file)

\* main.py:50-53
is_visited(username, file) == _norm_user(username) \in StrippedLines(file)

\* main.py:41-47 and 56-62: the file after add_to_visited / add_to_timeouts
add_to_store(username, file) ==
    LET key == _norm_user(username)
    IN  IF key \notin StrippedLines(file) THEN Append(file, key) ELSE file

\* an add that does not look for the key first
add_always(username, file) == Append(file, _norm_user(username))

add_to_visited(username, file) == add_to_store(username, file)

add_to_timeouts(username, file) == add_to_store(username, file)

\* the lines a loader keeps: non-blank and not a '#' comment
DataLines(file) ==
    {strip(file[k]) : k \in {j \in 1..Len(file) :
        strip(file[j]) # <<>> /\ ~startswith(strip(file[j]), <<"#">>)}}

\* main.py:73-86 with the lines taken as they are written
load_visited_subs_raw(file) == DataLines(file)

\* main.py:73-86
load_visited_subs(file) == {_norm_sub(l) : l \in DataLines(file)}

\* main.py:89-95
load_existing_new_subs(file) == {_norm_sub(l) : l \in DataLines(file)}

\* a membership test on the argument as given, not on its canonical form
append_new_sub_raw(sub_key, seen) ==
    IF _norm_sub(sub_key) = <<>> \/ sub_key \in seen THEN <<>> ELSE <<_norm_sub(sub_key)>>

\* main.py:98-111: the lines append_new_sub(sub_key, seen) writes to the log,
\* none or one; the caller's seen set gains what was written
append_new_sub(sub_key, seen) ==
    LET key == _norm_sub(sub_key)
    IN  IF key = <<>> \/ key \in seen THEN <<>> ELSE <<key>>

(***************************************************************************)
(* The Hungarian filter.  A float in [0,1] is the fraction n/d, compared   *)
(* by cross-multiplication.  A text is what the two detectors see of it:   *)
(* the length of the stripped text, the answer of detect_langs, and for    *)
(* each qualifying word (a match of _WORD_RE of two letters or more), in   *)
(* order, whether spell() finds it, misses it or raises.                   *)
(***************************************************************************)
MinDetectLen == 15    \* main.py:355
MinWordLen   == 2     \* main.py:376
MinWords     == 5     \* main.py:377
WordCap      == 400   \* main.py:382

Frac(n, d)   == [n |-> n, d |-> d]
Zero         == Frac(0, 1)
MinusOne     == Frac(-1, 1)
GE(a, b)     == a.n * b.d >= b.n * a.d
SameFrac(a, b) == a.n * b.d = b.n * a.d

Text(chars, langs, words) == [chars |-> chars, langs |-> langs, words |-> words]

\* main.py:351-365 without the test of the length
langdetect_hu_score_any_length(text, detect) ==
    IF IsNone(detect) THEN None
    ELSE IF text.langs.answer \in {"raise", "no-hu"} THEN Some(Zero)
    ELSE Some(text.langs.prob)

\* main.py:351-365
langdetect_hu_score(text, detect) ==
    IF IsNone(detect) THEN None
    ELSE IF text.chars < MinDetectLen THEN Some(Zero)
    ELSE IF text.langs.answer \in {"raise", "no-hu"} THEN Some(Zero)
    ELSE Some(text.langs.prob)

\* the words the for loop visits: words[:400]
Visited(words) == 1..(IF Len(words) < WordCap THEN Len(words) ELSE WordCap)

\* main.py:380-390 with a raising word left in the total, as a miss
spell_loop_strict(words) ==
    [ok    |-> Cardinality({k \in Visited(words) : words[k] = "hit"}),
     total |-> Cardinality(Visited(words))]

\* main.py:380-390: ok and total when the for loop ends; total is counted up
\* for every visited word and down again for every word whose lookup raised
spell_loop(words) ==
    [ok    |-> Cardinality({k \in Visited(words) : words[k] = "hit"}),
     total |-> Cardinality(Visited(words))
                 - Cardinality({k \in Visited(words) : words[k] = "raise"})]

\* main.py:368-393
hunspell_hu_score(text, hunspell) ==
    IF IsNone(hunspell) THEN None
    ELSE IF text.chars = 0 THEN Some(Zero)
    ELSE IF Len(text.words) < MinWords THEN Some(Zero)
    ELSE LET r == spell_loop(text.words)
         IN  IF r.total <= 0 THEN Some(Zero) ELSE Some(Frac(r.ok, r.total))

\* keep only if both detectors reach the threshold
is_hungarian_both(text, threshold, detect, hunspell) ==
    LET ld == langdetect_hu_score(text, detect)
        hs == hunspell_hu_score(text, hunspell)
    IN  [keep     |-> /\ ~IsNone(ld) /\ GE(Val(ld), threshold)
                      /\ ~IsNone(hs) /\ GE(Val(hs), threshold),
         ld_score |-> IF IsNone(ld) THEN MinusOne ELSE Val(ld),
         hs_score |-> IF IsNone(hs) THEN MinusOne ELSE Val(hs)]

\* main.py:396-414: (keep, ld_score, hs_score)
is_hungarian(text, threshold, detect, hunspell) ==
    LET ld == langdetect_hu_score(text, detect)
        hs == hunspell_hu_score(text, hunspell)
    IN  [keep     |-> \/ (~IsNone(ld) /\ GE(Val(ld), threshold))
                      \/ (~IsNone(hs) /\ GE(Val(hs), threshold)),
         ld_score |-> IF IsNone(ld) THEN MinusOne ELSE Val(ld),
         hs_score |-> IF IsNone(hs) THEN MinusOne ELSE Val(hs)]

\* main.py:657-674 with a threshold outside [0,1] taken as it is
hu_filter_init_unchecked(hu_threshold, ld_ok, hs_ok) ==
    IF IsNone(hu_threshold) THEN "off"
    ELSE IF ~ld_ok /\ ~hs_ok THEN "RuntimeError"
    ELSE "on"

\* main.py:657-674: the checks before the filter is used
hu_filter_init(hu_threshold, ld_ok, hs_ok) ==
    IF IsNone(hu_threshold) THEN "off"
    ELSE IF ~GE(Val(hu_threshold), Zero) \/ ~GE(Frac(1, 1), Val(hu_threshold))
    THEN "RuntimeError"
    ELSE IF ~ld_ok /\ ~hs_ok THEN "RuntimeError"
    ELSE "on"

Loaded(ok, what) == IF ok THEN Some(what) ELSE None

\* values of --filterhu, one step below 0 and one above 1 included
Thresholds == {Frac(k, ScoreDen) : k \in -1..(ScoreDen + 1)}

(***************************************************************************)
(* The windowed iterators, main.py:239-264.  iter_user_posts and           *)
(* iter_user_comments are the same code over two listings.                 *)
(***************************************************************************)
\* an item of a listing: created_utc (whole epoch seconds, so int() keeps it)
\* and the display name of its subreddit
Item(t, s) == [t |-> t, sub |-> s]

\* an upper bound that shuts out the item created at `before`
window_step_exclusive(cu, before, after) ==
    IF ~IsNone(before) /\ cu >= Val(before) THEN "continue"
    ELSE IF ~IsNone(after) /\ cu < Val(after) THEN "break"
    ELSE "yield"

\* a lower bound that passes the item by instead of ending the loop
window_step_no_break(cu, before, after) ==
    IF ~IsNone(before) /\ cu > Val(before) THEN "continue"
    ELSE IF ~IsNone(after) /\ cu < Val(after) THEN "continue"
    ELSE "yield"

\* main.py:243-247 (257-261): what the loop does with an item created at cu
window_step(cu, before, after) ==
    IF ~IsNone(before) /\ cu > Val(before) THEN "continue"
    ELSE IF ~IsNone(after) /\ cu < Val(after) THEN "break"
    ELSE "yield"

\* main.py:249 (263): `hard_limit and count >= hard_limit`
limit_hit(hard_limit, n) ==
    ~IsNone(hard_limit) /\ Val(hard_limit) # 0 /\ n >= Val(hard_limit)

\* the generator runs from its for statement to the next fetched item
PagFetch(before, after) ==
    /\ pstate = "scanning"
    /\ IF pos = Len(feed)
       THEN /\ pstate' = "exhausted"
            /\ UNCHANGED <<pos, emitted>>
       ELSE LET step == window_step(feed[pos + 1].t, before, after)
            IN  /\ pos' = pos + 1
                /\ pstate' = CASE step = "continue" -> "scanning"
                               [] step = "break"    -> "window-closed"
                               [] OTHER             -> "yielded"
                /\ emitted' = IF step = "yield" THEN Append(emitted, pos + 1) ELSE emitted
    /\ UNCHANGED <<feed, count>>

\* the generator is resumed after a yield: main.py:248-250 (262-264)
PagResume(hard_limit) ==
    /\ pstate = "yielded"
    /\ count' = count + 1
    /\ pstate' = IF limit_hit(hard_limit, count + 1) THEN "capped" ELSE "scanning"
    /\ UNCHANGED <<feed, pos, emitted>>

PagStopped == pstate \in {"exhausted", "window-closed", "capped"}

PagIdle == feed = <<>> /\ pos = 0 /\ count = 0 /\ pstate = "idle" /\ emitted = <<>>

PagReset == feed' = <<>> /\ pos' = 0 /\ count' = 0 /\ pstate' = "idle" /\ emitted' = <<>>

(***************************************************************************)
(* download_user_activity, main.py:418-564, and main(), main.py:567-733.   *)
(***************************************************************************)
ZeroStats == [saved |-> 0, excluded |-> 0, dropped |-> 0]

DlIdle ==
    /\ d_seen = {} /\ d_shared = FALSE /\ logged_new_subs = {}
    /\ posts_file = None /\ cmts_file = None /\ cls = "none"
    /\ stats = [posts |-> ZeroStats, comments |-> ZeroStats]

\* the locals of download_user_activity are gone once it has returned or raised
DlReset ==
    /\ d_seen' = {} /\ d_shared' = FALSE /\ logged_new_subs' = {}
    /\ posts_file' = None /\ cmts_file' = None /\ cls' = "none"
    /\ stats' = [posts |-> ZeroStats, comments |-> ZeroStats]

\* main.py:452-453
OutPath(uname_key, c) == [user |-> uname_key, cls |-> c]

\* the file system after open(path, "w"): created or truncated
Opened(fs, path) == [p \in DOMAIN fs \cup {path} |-> IF p = path THEN <<>> ELSE fs[p]]

\* the file system after f.write(block) on the stream of path
Written(fs, path, block) == [fs EXCEPT ![path] = Append(@, block)]

\* main.py:212-235: what resolve_user returns for the remote side's answer
resolve_user(answer) ==
    IF answer = "ok" THEN "user"
    ELSE IF answer \in {"NotFound", "Forbidden", "Redirect", "OtherError"} THEN "None"
    ELSE "raise"

\* the paths a set of file handles names
Handles(pf, cf) == Range(pf) \cup Range(cf)

\* a failure that is caught but not recorded
after_download_unrecorded(how, u, vfile, tfile) ==
    IF how = "returned"
    THEN [visited |-> add_to_visited(u, vfile), timeouts |-> tfile]
    ELSE [visited |-> vfile, timeouts |-> tfile]

\* main.py:726-733 with a completed identity taken off the failed store
after_download_clearing(how, u, vfile, tfile) ==
    IF how = "returned"
    THEN [visited  |-> add_to_visited(u, vfile),
          timeouts |-> SelectSeq(tfile, LAMBDA l : strip(l) # _norm_user(u))]
    ELSE [visited |-> vfile, timeouts |-> add_to_timeouts(u, tfile)]

\* main.py:710-733: the stores after download_user_activity returned or raised
after_download(how, u, vfile, tfile) ==
    IF how = "returned"
    THEN [visited |-> add_to_visited(u, vfile), timeouts |-> tfile]
    ELSE [visited |-> vfile, timeouts |-> add_to_timeouts(u, tfile)]

\* an exception that is recorded and then ends the batch
BackToLoopAborting(how, what) ==
    LET st == after_download(how, users[i], VISITED_FILE, TIMEOUTS_FILE)
    IN  /\ VISITED_FILE' = st.visited
        /\ TIMEOUTS_FILE' = st.timeouts
        /\ VISITED_EXISTS' = TRUE
        /\ outcome' = [outcome EXCEPT ![i] = what]
        /\ i' = i + 1
        /\ pc' = IF how = "raised" THEN "done" ELSE "loop"
        /\ DlReset
        /\ PagReset
        /\ UNCHANGED <<args, users, visited_override, remote>>

\* main.py:728-733 as a step: the stores are updated and the loop goes on
BackToLoop(how, what) ==
    LET st == after_download(how, users[i], VISITED_FILE, TIMEOUTS_FILE)
    IN  /\ VISITED_FILE' = st.visited
        /\ TIMEOUTS_FILE' = st.timeouts
        /\ VISITED_EXISTS' = TRUE
        /\ outcome' = [outcome EXCEPT ![i] = what]
        /\ i' = i + 1
        /\ pc' = "loop"
        /\ DlReset
        /\ PagReset
        /\ UNCHANGED <<args, users, visited_override, remote>>

\* str.split()[0] of a string that is not blank: its first word
FirstWord(s) ==
    LET t == strip(s)
        blanks == {k \in 1..Len(t) : t[k] = " "}
    IN  IF blanks = {} THEN t
        ELSE SubSeq(t, 1, (CHOOSE b \in blanks : \A k \in blanks : b <= k) - 1)

Raised == [raised |-> TRUE, users |-> <<>>]

\* main.py:163-174: the for loop over the lines, from line k on
RECURSIVE load_users_loop(_, _, _, _)
load_users_loop(lines, k, seen, found) ==
    IF k > Len(lines) THEN [raised |-> FALSE, users |-> found]
    ELSE LET line == strip(lines[k])
             rest == IF startswith(lower(line), <<"u", "/">>) THEN From2(line) ELSE line
         IN  IF line = <<>> \/ startswith(line, <<"#">>)
             THEN load_users_loop(lines, k + 1, seen, found)
             ELSE IF strip(rest) = <<>>
             THEN Raised                      \* line.split()[0]: IndexError
             ELSE IF _norm_user(FirstWord(rest)) # <<>> /\ _norm_user(FirstWord(rest)) \notin seen
             THEN load_users_loop(lines, k + 1, seen \cup {_norm_user(FirstWord(rest))},
                                  Append(found, FirstWord(rest)))
             ELSE load_users_loop(lines, k + 1, seen, found)

\* main.py:154-177: the usernames, or an exception (no file, no username)
load_users_from_file(file) ==
    IF ~file.exists THEN Raised
    ELSE LET r == load_users_loop(file.lines, 1, {}, <<>>)
         IN  IF r.users = <<>> THEN Raised ELSE r

\* an exception leaves main(): the process ends before the loop
Fatal ==
    /\ pc' = "fatal"
    /\ UNCHANGED <<users, outcome, i, visited_override>>

\* main.py:641-696: the loads, the filter, the usernames and the override
\* flag, before the loop
MainStart ==
    /\ UNCHANGED <<calls, ret>>
    /\ pc = "main"
    /\ visited_subs' = load_visited_subs(VISITED_SUBS_FILE)
    /\ new_subs_seen' = load_existing_new_subs(NEW_SUBS_FILE)
    /\ \E ld_ok \in BOOLEAN, hs_ok \in BOOLEAN :
       \E how \in {hu_filter_init(args.filterhu, ld_ok, hs_ok)} :
       \E loaded \in {IF IsNone(args.inputfile) THEN [raised |-> FALSE, users |-> users]
                       ELSE load_users_from_file(Val(args.inputfile))} :
         /\ detect_langs_func' = IF how = "on" THEN Loaded(ld_ok, "detect_langs") ELSE None
         /\ hunspell_obj' = IF how = "on" THEN Loaded(hs_ok, "HunSpell") ELSE None
         /\ IF how = "RuntimeError" \/ loaded.raised
            THEN Fatal
            ELSE /\ users' = loaded.users
                 /\ outcome' = [k \in 1..Len(loaded.users) |-> "none"]
                 /\ visited_override' = (args.reset_visited /\ VISITED_EXISTS)
                 /\ i' = 1
                 /\ pc' = "loop"
    /\ UNCHANGED <<args, storeVars, VISITED_SUBS_FILE, NEW_SUBS_FILE, appended,
                   remote, dlVars, pagVars>>

\* main.py:699-708: the head of one loop iteration
LoopStep ==
    /\ UNCHANGED <<calls, ret, langVars>>
    /\ pc = "loop"
    /\ IF i > Len(users)
       THEN /\ pc' = "done"
            /\ UNCHANGED <<i, outcome, VISITED_EXISTS>>
       ELSE IF strip(users[i]) = <<>>
       THEN /\ pc' = "loop"
            /\ i' = i + 1
            /\ outcome' = [outcome EXCEPT ![i] = "blank"]
            /\ UNCHANGED VISITED_EXISTS
       ELSE IF ~visited_override /\ is_visited(users[i], VISITED_FILE)
       THEN /\ pc' = "loop"
            /\ i' = i + 1
            /\ outcome' = [outcome EXCEPT ![i] = "skipped_processed"]
            /\ VISITED_EXISTS' = TRUE
       ELSE /\ pc' = "resolve"
            /\ VISITED_EXISTS' = (VISITED_EXISTS \/ ~visited_override)
            /\ UNCHANGED <<i, outcome>>
    /\ UNCHANGED <<args, users, visited_override, VISITED_FILE, TIMEOUTS_FILE,
                   subVars, remote, dlVars, pagVars>>

\* main.py:435-448: resolve the identity; on None return, on success bind the sets
Resolve ==
    /\ UNCHANGED <<calls, ret, langVars>>
    /\ pc = "resolve"
    /\ \E answer \in {"ok", "NotFound", "Forbidden", "Redirect", "OtherError", "Raise"} :
         LET r == resolve_user(answer)
         IN  IF r = "user"
             THEN /\ pc' = "open"
                  /\ d_seen' = new_subs_seen
                  /\ d_shared' = (new_subs_seen # {})
                  /\ logged_new_subs' = {}
                  /\ UNCHANGED <<mainVars, storeVars, remote, posts_file, cmts_file,
                                 cls, stats, pagVars, outcome>>
             ELSE IF r = "None"
             THEN BackToLoop("returned", "skipped_resolution")
             ELSE BackToLoop("raised", "failed")
    /\ UNCHANGED <<subVars, outfiles, open_files>>

\* main.py:451-459: both streams are opened before the try statement
OpenFiles ==
    /\ UNCHANGED <<calls, ret, langVars>>
    /\ pc = "open"
    /\ LET key   == _norm_user(users[i])
           pp    == OutPath(key, "posts")
           cp    == OutPath(key, "comments")
           fs1   == IF args.no_posts THEN outfiles ELSE Opened(outfiles, pp)
           op1   == IF args.no_posts THEN open_files ELSE open_files \cup {pp}
       IN  \E fail \in {"none"} \cup (IF args.no_posts THEN {} ELSE {"posts"})
                                \cup (IF args.no_comments THEN {} ELSE {"comments"}) :
             CASE fail = "posts" ->
                    /\ UNCHANGED <<outfiles, open_files>>
                    /\ BackToLoop("raised", "failed")
               [] fail = "comments" ->
                    /\ outfiles' = fs1
                    /\ open_files' = op1
                    /\ BackToLoop("raised", "failed")
               [] OTHER ->
                    /\ outfiles' = IF args.no_comments THEN fs1 ELSE Opened(fs1, cp)
                    /\ open_files' = IF args.no_comments THEN op1 ELSE op1 \cup {cp}
                    /\ posts_file' = IF args.no_posts THEN None ELSE Some(pp)
                    /\ cmts_file' = IF args.no_comments THEN None ELSE Some(cp)
                    /\ pc' = "headers"
                    /\ UNCHANGED <<mainVars, storeVars, remote, d_seen, d_shared,
                                   logged_new_subs, cls, stats, pagVars, outcome>>
    /\ UNCHANGED subVars

Header(uname_key) == [kind |-> "header", sub |-> uname_key, n |-> 0]

Block(item, n) == [kind |-> "item", sub |-> item.sub, n |-> n]

\* main.py:462-465
WriteHeaders ==
    /\ UNCHANGED <<calls, ret, langVars>>
    /\ pc = "headers"
    /\ LET key == _norm_user(users[i])
           fs1 == IF posts_file # None
                  THEN Written(outfiles, Val(posts_file), Header(key)) ELSE outfiles
       IN  outfiles' = IF cmts_file # None
                       THEN Written(fs1, Val(cmts_file), Header(key)) ELSE fs1
    /\ pc' = "class"
    /\ cls' = "posts"
    /\ UNCHANGED <<mainVars, storeVars, subVars, remote, d_seen, d_shared, logged_new_subs,
                   posts_file, cmts_file, open_files, stats, pagVars, outcome>>

ClassFile == IF cls = "posts" THEN posts_file ELSE cmts_file

ClassLimit == IF cls = "posts" THEN args.limit_posts ELSE args.limit_comments

\* main.py:556-562: the finally block
Finally == open_files' = open_files \ Handles(posts_file, cmts_file)

\* main.py:467-470 and 512-515: enter the loop of a class, or pass it by;
\* after the comments, the finally block, the return and add_to_visited
StartClass ==
    /\ UNCHANGED <<calls, ret, langVars>>
    /\ pc = "class"
    /\ IF cls = "end"
       THEN /\ Finally
            /\ BackToLoop("returned", "completed")
       ELSE IF ClassFile = None
       THEN /\ cls' = IF cls = "posts" THEN "comments" ELSE "end"
            /\ UNCHANGED <<pc, mainVars, storeVars, remote, d_seen, d_shared,
                           logged_new_subs, posts_file, cmts_file, open_files, stats,
                           pagVars, outcome>>
       ELSE /\ \E fd \in remote : feed' = fd
            /\ pos' = 0
            /\ count' = 0
            /\ emitted' = <<>>
            /\ pstate' = "scanning"
            /\ pc' = "iter"
            /\ UNCHANGED <<mainVars, storeVars, remote, dlVars, outcome>>
    /\ UNCHANGED <<subVars, outfiles>>

\* the for statement asks the generator for its next item
IterFetch ==
    /\ UNCHANGED <<calls, ret, langVars>>
    /\ pc = "iter"
    /\ PagFetch(args.before, args.after)
    /\ UNCHANGED <<pc, mainVars, storeVars, subVars, remote, dlVars, outcome>>

\* title and body of an item: Hungarian, English, or a few characters
ItemTexts ==
    { Text(MinDetectLen, [answer |-> "hu", prob |-> Frac(1, 1)],
           <<"hit", "hit", "hit", "hit", "hit">>),
      Text(MinDetectLen, [answer |-> "no-hu", prob |-> Zero],
           <<"miss", "miss", "miss", "miss", "miss">>),
      Text(1, [answer |-> "raise", prob |-> Zero], <<>>) }

Bump(st, c, f) == [st EXCEPT ![c][f] = @ + 1]

\* the verdicts is_hungarian can give on the yielded item; True with no filter
Verdicts ==
    IF IsNone(args.filterhu) THEN {TRUE}
    ELSE {is_hungarian(text, Val(args.filterhu), detect_langs_func, hunspell_obj).keep :
            text \in ItemTexts}

\* main.py:471-507 and 516-551: the loop body for the yielded item, then the
\* generator is resumed.  sub_key and the written line are bound as values.
IterBody ==
    /\ UNCHANGED <<calls, ret, langVars>>
    /\ pc = "iter"
    /\ PagResume(ClassLimit)
    /\ \E sub_key \in {_norm_sub(feed[pos].sub)} :
         IF sub_key \in visited_subs
         THEN /\ stats' = Bump(stats, cls, "excluded")
              /\ UNCHANGED <<subVars, d_seen, logged_new_subs, outfiles>>
         ELSE \E keep \in Verdicts :
                IF ~keep
                THEN /\ stats' = Bump(stats, cls, "dropped")
                     /\ UNCHANGED <<subVars, d_seen, logged_new_subs, outfiles>>
                ELSE \E wrote \in {IF sub_key # <<>> /\ sub_key \notin logged_new_subs
                                    THEN append_new_sub(sub_key, d_seen) ELSE <<>>} :
                       /\ logged_new_subs' = logged_new_subs \cup
                                                (IF sub_key # <<>> THEN {sub_key} ELSE {})
                       /\ NEW_SUBS_FILE' = NEW_SUBS_FILE \o wrote
                       /\ d_seen' = d_seen \cup Range(wrote)
                       /\ new_subs_seen' = IF d_shared THEN new_subs_seen \cup Range(wrote)
                                           ELSE new_subs_seen
                       /\ appended' = appended \o wrote
                       /\ outfiles' = Written(outfiles, Val(ClassFile), Block(feed[pos], pos))
                       /\ stats' = Bump(stats, cls, "saved")
                       /\ UNCHANGED <<VISITED_SUBS_FILE, visited_subs>>
    /\ UNCHANGED <<pc, mainVars, storeVars, remote, d_shared, posts_file, cmts_file,
                   open_files, cls, outcome>>

Partial(item, n) == [kind |-> "partial", sub |-> item.sub, n |-> n]

\* main.py:497-504 and 541-548: the item is kept, its new category is logged,
\* and then write_post_block / write_comment_block raises, with nothing or
\* with a part of the block written: finally, and main() records the failure
IterWriteRaise ==
    /\ UNCHANGED <<calls, ret, langVars>>
    /\ pc = "iter"
    /\ pstate = "yielded"
    /\ \E sub_key \in {_norm_sub(feed[pos].sub)} :
         /\ sub_key \notin visited_subs
         /\ TRUE \in Verdicts
         /\ \E wrote \in {IF sub_key # <<>> /\ sub_key \notin logged_new_subs
                            THEN append_new_sub(sub_key, d_seen) ELSE <<>>} :
              /\ NEW_SUBS_FILE' = NEW_SUBS_FILE \o wrote
              /\ new_subs_seen' = IF d_shared THEN new_subs_seen \cup Range(wrote)
                                  ELSE new_subs_seen
              /\ appended' = appended \o wrote
    /\ \E part \in BOOLEAN :
         outfiles' = IF part THEN Written(outfiles, Val(ClassFile), Partial(feed[pos], pos))
                     ELSE outfiles
    /\ Finally
    /\ BackToLoop("raised", "failed")
    /\ UNCHANGED <<VISITED_SUBS_FILE, visited_subs>>

\* main.py:509-510 and 553-554: the generator has stopped
IterEnd ==
    /\ UNCHANGED <<calls, ret, langVars>>
    /\ pc = "iter"
    /\ PagStopped
    /\ pc' = "class"
    /\ cls' = IF cls = "posts" THEN "comments" ELSE "end"
    /\ UNCHANGED <<mainVars, storeVars, subVars, remote, d_seen, d_shared, logged_new_subs,
                   posts_file, cmts_file, outfiles, open_files, stats, pagVars, outcome>>

\* any statement of the try block raises (a fetch, a write): the finally
\* block closes the streams and main() records the failure, main.py:730-733
HarvestRaise ==
    /\ UNCHANGED <<calls, ret, langVars>>
    /\ pc \in {"headers", "class", "iter"}
    /\ ~(pc = "class" /\ cls = "end")
    /\ Finally
    /\ BackToLoop("raised", "failed")
    /\ UNCHANGED <<subVars, outfiles>>

\* a stream left open by a call that has ended is closed when the
\* interpreter finalizes the file object, at some time after main() has
\* handled the exception (CPython), or never during the run
Collect ==
    /\ pc \in {"loop", "done"}
    /\ open_files # {}
    /\ open_files' = {}
    /\ UNCHANGED <<pc, mainVars, storeVars, subVars, remote, d_seen, d_shared,
                   logged_new_subs, posts_file, cmts_file, outfiles, cls, stats,
                   pagVars, outcome, calls, ret, langVars>>

Next ==
    \/ MainStart
    \/ LoopStep
    \/ Resolve
    \/ OpenFiles
    \/ WriteHeaders
    \/ StartClass
    \/ IterFetch
    \/ IterBody
    \/ IterEnd
    \/ IterWriteRaise
    \/ HarvestRaise
    \/ Collect

(***************************************************************************)
(* The runs.                                                               *)
(***************************************************************************)
SeqsUpTo(S, n) == UNION {[1..k -> S] : k \in 0..n}

\* spellings of identities on the command line: two handles, one of them also
\* in upper case with the u/ prefix, and a blank entry
UserNames == {<<"f">>, <<"U", "/", "F">>, <<"g">>, <<" ">>}

\* the listings of the batch runs
BatchFeeds == {<<>>, <<Item(1, <<"A">>)>>}

\* the identity stores a former run can have left
BatchStores ==
    { [exists |-> FALSE, visited |-> <<>>,        timeouts |-> <<>>],
      [exists |-> TRUE,  visited |-> <<>>,        timeouts |-> <<>>],
      [exists |-> TRUE,  visited |-> <<>>,        timeouts |-> << <<"f">> >>],
      [exists |-> TRUE,  visited |-> << <<"f">> >>, timeouts |-> <<>>],
      [exists |-> TRUE,  visited |-> << <<"f">> >>, timeouts |-> << <<"f">> >>] }

DefaultArgs ==
    [reset_visited |-> FALSE, after |-> None, before |-> None,
     limit_posts |-> None, limit_comments |-> None,
     no_posts |-> FALSE, no_comments |-> FALSE, filterhu |-> None, inputfile |-> None]

\* no direct call has returned, no language backend is loaded
NoCall ==
    /\ ret = <<>>
    /\ detect_langs_func = <<>>
    /\ hunspell_obj = <<>>

\* before main() has run: nothing loaded, no call active
Fresh ==
    /\ i = 1
    /\ visited_override = FALSE
    /\ visited_subs = {}
    /\ new_subs_seen = {}
    /\ appended = <<>>
    /\ outfiles = << >>
    /\ open_files = {}
    /\ DlIdle
    /\ PagIdle
    /\ NoCall

Init ==
    /\ pc = "main"
    /\ \E r \in BOOLEAN : args = [DefaultArgs EXCEPT !.reset_visited = r]
    /\ users \in SeqsUpTo(UserNames, MaxQueue) \ {<<>>}
    /\ \E st \in BatchStores :
         /\ VISITED_EXISTS = st.exists
         /\ VISITED_FILE = st.visited
         /\ TIMEOUTS_FILE = st.timeouts
    /\ VISITED_SUBS_FILE \in {<<>>, << <<"r", "/", "A">> >>}
    /\ NEW_SUBS_FILE \in {<<>>, << <<"a">> >>}
    /\ remote = BatchFeeds
    /\ outcome = [k \in 1..Len(users) |-> "none"]
    /\ calls = <<>>
    /\ Fresh

Spec == Init /\ [][Next]_vars

\* the batch runs that start with no exclusion list and no discovery log
InitFair == Init /\ VISITED_SUBS_FILE = <<>> /\ NEW_SUBS_FILE = <<>>

\* a sequential program takes its next step as long as it has one
SpecFair == InitFair /\ [][Next]_vars /\ WF_vars(Next)

(***************************************************************************)
(* The batch runs with a filter threshold and a usernames file.            *)
(***************************************************************************)
\* the lines of a usernames file: two spellings of one handle, a handle
\* followed by a second word, a comment, a blank line, a bare prefix
InputLines ==
    { <<"f">>, <<"U", "/", "F">>, <<"g", " ", "x">>, <<"#", "f">>, <<" ">>, <<"u", "/">> }

\* --inputfile: a path with no file, or a file of up to MaxQueue lines
InputFiles ==
    {[exists |-> FALSE, lines |-> <<>>]}
        \cup {[exists |-> TRUE, lines |-> l] : l \in SeqsUpTo(InputLines, MaxQueue)}

InitConfig ==
    /\ pc = "main"
    /\ \E th \in {None} \cup {Some(t) : t \in Thresholds},
          f \in {None} \cup {Some(g) : g \in InputFiles} :
         args = [DefaultArgs EXCEPT !.filterhu = th, !.inputfile = f]
    /\ users = << <<"f">> >>
    /\ \E st \in BatchStores :
         /\ VISITED_EXISTS = st.exists
         /\ VISITED_FILE = st.visited
         /\ TIMEOUTS_FILE = st.timeouts
    /\ VISITED_SUBS_FILE = <<>>
    /\ NEW_SUBS_FILE = <<>>
    /\ remote = BatchFeeds
    /\ outcome = [k \in 1..Len(users) |-> "none"]
    /\ calls = <<>>
    /\ Fresh

SpecConfig == InitConfig /\ [][Next]_vars

(***************************************************************************)
(* The iterators alone: one listing, one window, one cap.                  *)
(***************************************************************************)
Times == 1..MaxTime

OptTimes == {None} \cup {Some(t) : t \in Times}

\* values of --limit-posts: argparse's type=int takes any integer
Limits == {None, Some(-1), Some(0), Some(1), Some(2)}

\* listings in any order of time; the service is trusted to send them
\* newest first, the iterators do not check it
PagFeeds == SeqsUpTo({Item(t, <<"A">>) : t \in Times}, MaxFeedLen)

InitPag ==
    /\ pc = "pag"
    /\ \E b \in OptTimes, a \in OptTimes, l \in Limits :
         args = [DefaultArgs EXCEPT !.before = b, !.after = a, !.limit_posts = l]
    /\ users = << <<"f">> >>
    /\ outcome = [k \in 1..1 |-> "none"]
    /\ VISITED_EXISTS = FALSE
    /\ VISITED_FILE = <<>>
    /\ TIMEOUTS_FILE = <<>>
    /\ VISITED_SUBS_FILE = <<>>
    /\ NEW_SUBS_FILE = <<>>
    /\ remote = {}
    /\ calls = <<>>
    /\ NoCall
    /\ i = 1 /\ visited_override = FALSE /\ visited_subs = {} /\ new_subs_seen = {}
    /\ appended = <<>> /\ outfiles = << >> /\ open_files = {}
    /\ DlIdle
    /\ feed \in PagFeeds
    /\ pos = 0 /\ count = 0 /\ emitted = <<>>
    /\ pstate = "scanning"

\* next(gen) up to the next fetched item
PagOnlyFetch ==
    /\ pc = "pag"
    /\ PagFetch(args.before, args.after)
    /\ UNCHANGED <<pc, mainVars, storeVars, subVars, remote, dlVars, outcome, calls,
                   ret, langVars>>

\* the consumer takes the yielded item and asks for the next one
PagOnlyResume ==
    /\ pc = "pag"
    /\ PagResume(args.limit_posts)
    /\ UNCHANGED <<pc, mainVars, storeVars, subVars, remote, dlVars, outcome, calls,
                   ret, langVars>>

NextPag == PagOnlyFetch \/ PagOnlyResume

SpecPag == InitPag /\ [][NextPag]_vars

(***************************************************************************)
(* The harvest of one identity: one listing, newest first, served for the  *)
(* posts and for the comments, a time window and an exclusion list.        *)
(***************************************************************************)
\* a listing as the service sends it, newest first
Descending(fd) == \A a, b \in 1..Len(fd) : a < b => fd[a].t >= fd[b].t

\* items of one category, in an upper-case spelling, and of no category
HarvestItems == {Item(t, s) : t \in Times, s \in {<<"A">>, <<>>}}

HarvestFeeds == {fd \in SeqsUpTo(HarvestItems, MaxFeedLen) : Descending(fd)}

InitHarvest ==
    /\ pc = "main"
    /\ \E b \in OptTimes, a \in OptTimes :
         args = [DefaultArgs EXCEPT !.before = b, !.after = a]
    /\ users = << <<"f">> >>
    /\ VISITED_EXISTS = FALSE
    /\ VISITED_FILE = <<>>
    /\ TIMEOUTS_FILE = <<>>
    /\ VISITED_SUBS_FILE \in {<<>>, << <<"r", "/", "A">> >>}
    /\ NEW_SUBS_FILE = <<>>
    /\ \E fd \in HarvestFeeds : remote = {fd}
    /\ outcome = [k \in 1..Len(users) |-> "none"]
    /\ calls = <<>>
    /\ Fresh

SpecHarvest == InitHarvest /\ [][Next]_vars

\* the harvest of one identity with the filter off, at the threshold 0 and
\* at the threshold 1, and no time window
InitFilter ==
    /\ pc = "main"
    /\ \E th \in {None, Some(Frac(0, ScoreDen)), Some(Frac(ScoreDen, ScoreDen))} :
         args = [DefaultArgs EXCEPT !.filterhu = th]
    /\ users = << <<"f">> >>
    /\ VISITED_EXISTS = FALSE
    /\ VISITED_FILE = <<>>
    /\ TIMEOUTS_FILE = <<>>
    /\ VISITED_SUBS_FILE \in {<<>>, << <<"r", "/", "A">> >>}
    /\ NEW_SUBS_FILE = <<>>
    /\ \E fd \in HarvestFeeds : remote = {fd}
    /\ outcome = [k \in 1..Len(users) |-> "none"]
    /\ calls = <<>>
    /\ Fresh

SpecFilter == InitFilter /\ [][Next]_vars

(***************************************************************************)
(* The harvest of one identity under per-class caps, with and without the  *)
(* exclusion list and the filter, and no time window.                      *)
(***************************************************************************)
\* items of an excludable category and of no category, all at one time
CapFeeds == SeqsUpTo({Item(1, <<"A">>), Item(1, <<>>)}, MaxFeedLen)

InitCap ==
    /\ pc = "main"
    /\ \E lp \in Limits, lc \in {None, Some(1)}, th \in {None, Some(Frac(ScoreDen, ScoreDen))} :
         args = [DefaultArgs EXCEPT !.limit_posts = lp, !.limit_comments = lc, !.filterhu = th]
    /\ users = << <<"f">> >>
    /\ VISITED_EXISTS = FALSE
    /\ VISITED_FILE = <<>>
    /\ TIMEOUTS_FILE = <<>>
    /\ VISITED_SUBS_FILE \in {<<>>, << <<"r", "/", "A">> >>}
    /\ NEW_SUBS_FILE = <<>>
    /\ \E fd \in CapFeeds : remote = {fd}
    /\ outcome = [k \in 1..Len(users) |-> "none"]
    /\ calls = <<>>
    /\ Fresh

SpecCap == InitCap /\ [][Next]_vars

(***************************************************************************)
(* append_new_sub alone: calls that share one seen set.                    *)
(***************************************************************************)
\* sub_key arguments: one category in three spellings, another one, and
\* three spellings of the empty category
SubInputs == {<<"A">>, <<"a">>, <<"r", "/", "A">>, <<"b">>, <<>>, <<" ">>, <<"r", "/">>}

InitLedger ==
    /\ pc = "ledger"
    /\ args = DefaultArgs
    /\ users = << <<"f">> >>
    /\ outcome = [k \in 1..1 |-> "none"]
    /\ VISITED_EXISTS = FALSE
    /\ VISITED_FILE = <<>>
    /\ TIMEOUTS_FILE = <<>>
    /\ VISITED_SUBS_FILE = <<>>
    /\ NEW_SUBS_FILE \in {<<>>, << <<"a">> >>, << <<"b">> >>}
    /\ new_subs_seen \in SUBSET {<<"a">>, <<"b">>}
    /\ remote = {}
    /\ calls = <<>>
    /\ NoCall
    /\ i = 1 /\ visited_override = FALSE /\ visited_subs = {}
    /\ appended = <<>> /\ outfiles = << >> /\ open_files = {}
    /\ DlIdle
    /\ PagIdle

\* append_new_sub(sub_key, new_subs_seen), with the caller's set passed on
LedgerCall ==
    /\ pc = "ledger"
    /\ Len(calls) < MaxCalls
    /\ \E s \in SubInputs :
         LET wrote == append_new_sub(s, new_subs_seen)
         IN  /\ NEW_SUBS_FILE' = NEW_SUBS_FILE \o wrote
             /\ new_subs_seen' = new_subs_seen \cup Range(wrote)
             /\ appended' = appended \o wrote
             /\ calls' = Append(calls, s)
    /\ UNCHANGED <<pc, mainVars, storeVars, VISITED_SUBS_FILE, visited_subs, remote,
                   dlVars, pagVars, outcome, ret, langVars>>

NextLedger == LedgerCall

SpecLedger == InitLedger /\ [][NextLedger]_vars

(***************************************************************************)
(* The identity stores alone: add_to_visited, add_to_timeouts, is_visited. *)
(***************************************************************************)
\* username arguments: one handle in several spellings, another handle, a
\* doubled prefix, a blank after the prefix, and three empty identities
IdentityInputs ==
    { <<"f">>, <<"F">>, <<"u", "/", "f">>, <<"U", "/", "F">>, <<" ", "f", " ">>,
      <<"g">>, <<"u", "/", "u", "/", "f">>, <<"u", "/", " ", "f">>,
      <<>>, <<" ">>, <<"u", "/">> }

Call(fn, arg) == [fn |-> fn, arg |-> arg]

InitStore ==
    /\ pc = "store"
    /\ args = DefaultArgs
    /\ users = << <<"f">> >>
    /\ outcome = [k \in 1..1 |-> "none"]
    /\ \E st \in BatchStores :
         /\ VISITED_EXISTS = st.exists
         /\ VISITED_FILE = st.visited
         /\ TIMEOUTS_FILE = st.timeouts
    /\ VISITED_SUBS_FILE = <<>>
    /\ NEW_SUBS_FILE = <<>>
    /\ remote = {}
    /\ calls = <<>>
    /\ Fresh

StoreUnchanged ==
    UNCHANGED <<pc, mainVars, subVars, remote, dlVars, pagVars, outcome, langVars>>

\* add_to_visited(x)
StoreAddVisited ==
    /\ pc = "store"
    /\ Len(calls) < MaxCalls
    /\ \E x \in IdentityInputs :
         /\ VISITED_FILE' = add_to_visited(x, VISITED_FILE)
         /\ calls' = Append(calls, Call("add_to_visited", x))
    /\ VISITED_EXISTS' = TRUE
    /\ ret' = None
    /\ UNCHANGED TIMEOUTS_FILE
    /\ StoreUnchanged

\* add_to_timeouts(x)
StoreAddTimeouts ==
    /\ pc = "store"
    /\ Len(calls) < MaxCalls
    /\ \E x \in IdentityInputs :
         /\ TIMEOUTS_FILE' = add_to_timeouts(x, TIMEOUTS_FILE)
         /\ calls' = Append(calls, Call("add_to_timeouts", x))
    /\ ret' = None
    /\ UNCHANGED <<VISITED_EXISTS, VISITED_FILE>>
    /\ StoreUnchanged

\* is_visited(x): touch() creates a missing file, then the lines are read
StoreIsVisited ==
    /\ pc = "store"
    /\ Len(calls) < MaxCalls
    /\ \E x \in IdentityInputs :
         /\ ret' = Some(is_visited(x, VISITED_FILE))
         /\ calls' = Append(calls, Call("is_visited", x))
    /\ VISITED_EXISTS' = TRUE
    /\ UNCHANGED <<VISITED_FILE, TIMEOUTS_FILE>>
    /\ StoreUnchanged

NextStore == StoreAddVisited \/ StoreAddTimeouts \/ StoreIsVisited

SpecStore == InitStore /\ [][NextStore]_vars

(***************************************************************************)
(* The filter alone: it is set up as main() does, then is_hungarian is     *)
(* called on one text.                                                     *)
(***************************************************************************)
\* what detect_langs answers: it raises, it lists no "hu", or "hu" with a prob
Langs ==
    {[answer |-> a, prob |-> Zero] : a \in {"raise", "no-hu"}}
        \cup {[answer |-> "hu", prob |-> Frac(k, ScoreDen)] : k \in 0..ScoreDen}

SpellOutcomes == {"hit", "miss", "raise"}

\* word lists around the cap of 400: a run of x, then a run of y
LongWords ==
    { [k \in 1..n |-> IF k <= a THEN x ELSE y] :
        n \in {WordCap, WordCap + 1, WordCap + 2},
        a \in {0, 1, WordCap - 1, WordCap},
        x \in SpellOutcomes, y \in SpellOutcomes }

WordLists == SeqsUpTo(SpellOutcomes, MaxWords) \cup LongWords

\* the shortest text with these qualifying words, one separator between two
ShortestWith(words) == IF words = <<>> THEN 0 ELSE Len(words) * (MinWordLen + 1) - 1

TextLens == {0, 1, MinDetectLen - 1, MinDetectLen, (WordCap + 2) * (MinWordLen + 1)}

Texts ==
    { t \in [chars : TextLens, langs : Langs, words : WordLists] :
        t.chars >= ShortestWith(t.words) }

InitLang ==
    /\ pc = "lang-init"
    /\ \E th \in Thresholds : args = [DefaultArgs EXCEPT !.filterhu = Some(th)]
    /\ users = << <<"f">> >>
    /\ outcome = [k \in 1..1 |-> "none"]
    /\ VISITED_EXISTS = FALSE
    /\ VISITED_FILE = <<>>
    /\ TIMEOUTS_FILE = <<>>
    /\ VISITED_SUBS_FILE = <<>>
    /\ NEW_SUBS_FILE = <<>>
    /\ remote = {}
    /\ calls = <<>>
    /\ Fresh

LangUnchanged ==
    UNCHANGED <<mainVars, storeVars, subVars, remote, dlVars, pagVars, outcome>>

\* main.py:657-674 with the backends this machine has
LangInit ==
    /\ pc = "lang-init"
    /\ \E ld_ok \in BOOLEAN, hs_ok \in BOOLEAN :
         LET how == hu_filter_init(args.filterhu, ld_ok, hs_ok)
         IN  /\ pc' = IF how = "RuntimeError" THEN "fatal" ELSE "lang"
             /\ detect_langs_func' = IF how = "on" THEN Loaded(ld_ok, "detect_langs") ELSE None
             /\ hunspell_obj' = IF how = "on" THEN Loaded(hs_ok, "HunSpell") ELSE None
    /\ UNCHANGED <<calls, ret>>
    /\ LangUnchanged

\* is_hungarian(text, hu_threshold, detect_langs_func, hunspell_obj)
LangCall ==
    /\ pc = "lang"
    /\ calls = <<>>
    /\ \E text \in Texts :
         /\ calls' = <<text>>
         /\ ret' = Some(is_hungarian(text, Val(args.filterhu), detect_langs_func,
                                     hunspell_obj))
    /\ UNCHANGED <<pc, langVars>>
    /\ LangUnchanged

NextLang == LangInit \/ LangCall

SpecLang == InitLang /\ [][NextLang]_vars

(***************************************************************************)
(* _norm_user and _norm_sub alone: canon(x), then canon of the result.     *)
(***************************************************************************)
\* the characters of the argument strings: both prefixes, in both cases, a
\* handle letter in both cases and the blank
CanonChars == {"u", "U", "r", "/", "f", "F", " "}

\* every string of up to MaxStr characters; None is normalised like ""
CanonInputs == SeqsUpTo(CanonChars, MaxStr)

canon(fn, x) == IF fn = "_norm_user" THEN _norm_user(x) ELSE _norm_sub(x)

InitCanon ==
    /\ pc = "canon"
    /\ args = DefaultArgs
    /\ users = << <<"f">> >>
    /\ outcome = [k \in 1..1 |-> "none"]
    /\ VISITED_EXISTS = FALSE
    /\ VISITED_FILE = <<>>
    /\ TIMEOUTS_FILE = <<>>
    /\ VISITED_SUBS_FILE = <<>>
    /\ NEW_SUBS_FILE = <<>>
    /\ remote = {}
    /\ calls = <<>>
    /\ Fresh

CanonUnchanged ==
    UNCHANGED <<pc, mainVars, storeVars, subVars, remote, dlVars, pagVars, outcome,
                langVars>>

\* _norm_user(x) or _norm_sub(x) on an argument string
CanonCall ==
    /\ pc = "canon"
    /\ calls = <<>>
    /\ \E fn \in {"_norm_user", "_norm_sub"}, x \in CanonInputs :
         /\ calls' = <<Call(fn, x)>>
         /\ ret' = Some(canon(fn, x))
    /\ CanonUnchanged

\* the same function on the value it has just returned
CanonAgain ==
    /\ pc = "canon"
    /\ Len(calls) = 1
    /\ calls' = Append(calls, Call(calls[1].fn, Val(ret)))
    /\ ret' = Some(canon(calls[1].fn, Val(ret)))
    /\ CanonUnchanged

NextCanon == CanonCall \/ CanonAgain

SpecCanon == InitCanon /\ [][NextCanon]_vars

(***************************************************************************)
(* Properties.                                                             *)
(***************************************************************************)
\* the canonical form of the identity the loop is at
Key == _norm_user(users[i])

InStore(key, file) == key \in StrippedLines(file)

\* number of lines of a store that hold key
Occurrences(key, file) == Cardinality({k \in 1..Len(file) : strip(file[k]) = key})

NoDuplicates(seq) == \A a, b \in 1..Len(seq) : seq[a] = seq[b] => a = b

\* download_user_activity is running for users[i]
InDownload == pc \in {"resolve", "open", "headers", "class", "iter"}

\* this step ends the loop iteration of users[i] with outcome what
Ends(what) == InDownload /\ outcome'[i] = what

\* C1: after the loop has handled an identity whose resolution returned
\* None (not-found, forbidden, redirect, other error), no output file was
\* created, the identity is in neither store if it was in neither before, and
\* the loop is at the next identity.
C1_SkippedLeavesNoTrace ==
    [][Ends("skipped_resolution") =>
         /\ outfiles' = outfiles
         /\ (~InStore(Key, VISITED_FILE) /\ ~InStore(Key, TIMEOUTS_FILE)
               => ~InStore(Key, VISITED_FILE') /\ ~InStore(Key, TIMEOUTS_FILE'))
         /\ pc' = "loop" /\ i' = i + 1]_vars

\* C2: when an exception escapes download_user_activity, the identity is in
\* the failed store after the iteration and the iteration added nothing to
\* the processed store.
C2_FailedIsRecorded ==
    [][Ends("failed") =>
         /\ InStore(Key, TIMEOUTS_FILE')
         /\ VISITED_FILE' = VISITED_FILE
         /\ pc' = "loop" /\ i' = i + 1]_vars

C2_Witness ==
    /\ pc = "loop" /\ i = 2
    /\ outcome[1] = "failed"
    /\ InStore(_norm_user(users[1]), TIMEOUTS_FILE)
    /\ ~InStore(_norm_user(users[1]), VISITED_FILE)

Terminal == {"skipped_processed", "skipped_resolution", "completed", "failed"}

\* C3: the loop reaches the end of the queue, by then every queued identity
\* has one of the four outcomes (a blank entry is no identity and is passed
\* by), and an outcome once given is never changed.
C3_BatchCompletes ==
    /\ <>(pc = "done" /\ \A k \in 1..Len(users) :
            IF strip(users[k]) = <<>> THEN outcome[k] = "blank" ELSE outcome[k] \in Terminal)
    /\ [][\A k \in 1..Len(users) : outcome[k] # "none" => outcome'[k] = outcome[k]]_vars

\* a failed identity followed by one that was attempted and completed
C3_Witness ==
    /\ pc = "done" /\ Len(users) = 2
    /\ outcome[1] = "failed" /\ outcome[2] = "completed"

\* C4: when an identity resolves and its harvest ends without an exception,
\* the processed store holds it exactly once after the iteration and the
\* failed store is as before.
C4_CompletedIsProcessedOnce ==
    [][Ends("completed") =>
         /\ Occurrences(Key, VISITED_FILE') = 1
         /\ TIMEOUTS_FILE' = TIMEOUTS_FILE]_vars

\* a completed harvest that wrote no item: both files hold their header only
C4_Witness ==
    /\ pc = "loop" /\ i = 2
    /\ outcome[1] = "completed"
    /\ Occurrences(_norm_user(users[1]), VISITED_FILE) = 1
    /\ outfiles[OutPath(_norm_user(users[1]), "posts")] = <<Header(_norm_user(users[1]))>>
    /\ outfiles[OutPath(_norm_user(users[1]), "comments")] = <<Header(_norm_user(users[1]))>>

\* the loop is at a queued identity (not at the end, not at a blank entry)
AtIdentity == pc = "loop" /\ i <= Len(users) /\ strip(users[i]) # <<>>

\* C5: without --reset-visited an identity found in the processed store is
\* passed by with no resolution, no file opened and no store changed, also
\* when the failed store holds it too; with --reset-visited the processed
\* store is not consulted and every queued identity is resolved.
C5_SkipPrecedence ==
    [][AtIdentity =>
         /\ (~args.reset_visited /\ InStore(Key, VISITED_FILE)
               => /\ pc' = "loop" /\ i' = i + 1
                  /\ outcome'[i] = "skipped_processed"
                  /\ UNCHANGED <<VISITED_FILE, TIMEOUTS_FILE, NEW_SUBS_FILE,
                                 outfiles, open_files>>)
         /\ (args.reset_visited => pc' = "resolve")]_vars

(***************************************************************************)
(* Properties of the iterators (SpecPag).                                  *)
(***************************************************************************)
\* after <= t <= before, each bound only if it is set
InWindow(t) ==
    /\ (IsNone(args.after) \/ Val(args.after) <= t)
    /\ (IsNone(args.before) \/ t <= Val(args.before))

Positions(fd) == [k \in 1..Len(fd) |-> k]

InWindowAt(k) == InWindow(feed[k].t)

\* the positions of the feed's in-window items, in feed order
WindowPositions == SelectSeq(Positions(feed), InWindowAt)

TooOld(k) == ~IsNone(args.after) /\ feed[k].t < Val(args.after)

TooNew(k) == ~IsNone(args.before) /\ feed[k].t > Val(args.before)

\* k is the first position of the feed that satisfies P
IsFirst(k, P(_)) == P(k) /\ \A j \in 1..(k - 1) : ~P(j)

\* C6: with no cap, on a feed that is descending by timestamp, the iterator
\* emits exactly the items with after <= t <= before, in feed order.
C6_WindowExact ==
    (pc = "pag" /\ PagStopped /\ IsNone(args.limit_posts) /\ Descending(feed))
        => emitted = WindowPositions

\* the spec's example in small: feed 3,2,1 and the window (after=2, before=2)
\* give the one item at 2, and the iterator stops at the item at 1
C6_Witness ==
    /\ pc = "pag" /\ pstate = "window-closed" /\ IsNone(args.limit_posts)
    /\ Len(feed) = 3 /\ feed[1].t = 3 /\ feed[2].t = 2 /\ feed[3].t = 1
    /\ args.after = Some(2) /\ args.before = Some(2)
    /\ emitted = <<2>>

\* an item newer than `before` is only passed by: it is not emitted and it
\* does not stop the iterator, which goes on to ask for the next item
SkipsTooNew ==
    \A k \in 1..pos : TooNew(k) =>
        /\ k \notin Range(emitted)
        /\ (k = pos => pstate \in {"scanning", "exhausted"})

\* C7 as stated: the iterator stops at the first item with t < after, emits
\* nothing from there on and fetches no later item; an item with t > before
\* is only passed by.
C7_StopsAtFirstTooOld ==
    pc = "pag" =>
        /\ \A k \in 1..Len(feed) : IsFirst(k, TooOld) =>
             /\ pos <= k
             /\ \A e \in Range(emitted) : e < k
        /\ SkipsTooNew

Closing(k) == TooOld(k) /\ ~TooNew(k)

\* C7 as amended: the iterator stops at the first item with t < after that
\* is not also newer than `before`; there it is window-closed, it has emitted
\* nothing from there on and it fetches no later item.  An item with t > before
\* is only passed by, also when it is older than `after`.
C7_StopsAtFirstClosing ==
    pc = "pag" =>
        /\ \A k \in 1..Len(feed) : IsFirst(k, Closing) =>
             /\ pos <= k
             /\ (pos = k => pstate = "window-closed")
             /\ \A e \in Range(emitted) : e < k
        /\ SkipsTooNew

\* the iterator has passed by a too-new item, has stopped at a too-old one
\* and leaves a later item unfetched
C7_Witness ==
    /\ pc = "pag" /\ pstate = "window-closed"
    /\ pos < Len(feed)
    /\ TooOld(pos) /\ ~TooNew(pos)
    /\ \E k \in 1..(pos - 1) : TooNew(k)

Min(a, b) == IF a <= b THEN a ELSE b

\* C8: with a cap k (any value but None; here k >= 0), on a descending feed
\* the iterator emits exactly the first min(k, n) of the n in-window items,
\* and when the cap is reached it is capped at once, no further item fetched.
C8_CapExact ==
    (pc = "pag" /\ PagStopped /\ ~IsNone(args.limit_posts) /\ Descending(feed))
        => (Val(args.limit_posts) >= 0 =>
              LET k == Val(args.limit_posts)
                  n == Len(WindowPositions)
              IN  /\ emitted = SubSeq(WindowPositions, 1, Min(k, n))
                  /\ (n >= k /\ k >= 1 => pstate = "capped" /\ pos = WindowPositions[k]))

(***************************************************************************)
(* Properties of the discovery log.                                        *)
(***************************************************************************)
Canonical(file) == [k \in 1..Len(file) |-> _norm_sub(strip(file[k]))]

\* C9: the discovery log never holds a canonical category twice (it holds
\* none twice at startup), whoever wrote it: a former run or an earlier
\* identity of this run, and also when the log was empty at startup.
C9_NoDuplicateDiscovery == NoDuplicates(Canonical(NEW_SUBS_FILE))

\* C10: in calls of append_new_sub that share one seen set, a call writes
\* nothing when the canonical category is empty or in the seen set, else it
\* appends the canonical category and marks it seen; so no category is
\* appended twice and the empty category is never written.
C10_LedgerAppendsOnce ==
    [][(pc = "ledger" /\ calls' # calls) =>
         LET key == _norm_sub(calls'[Len(calls')])
         IN  /\ IF key = <<>> \/ key \in new_subs_seen
                THEN UNCHANGED <<NEW_SUBS_FILE, new_subs_seen>>
                ELSE /\ NEW_SUBS_FILE' = Append(NEW_SUBS_FILE, key)
                     /\ new_subs_seen' = new_subs_seen \cup {key}
             /\ NoDuplicates(appended')
             /\ <<>> \notin Range(appended')]_vars

\* "A" then "a" on an empty log and an empty seen set: the one line "a"
C10_Witness ==
    /\ pc = "ledger"
    /\ calls = << <<"A">>, <<"a">> >>
    /\ appended = << <<"a">> >>
    /\ NEW_SUBS_FILE = << <<"a">> >>

(***************************************************************************)
(* Properties of the identity stores (SpecStore).                          *)
(***************************************************************************)
LastCall == calls'[Len(calls')]

\* an earlier call of fn in this run had an argument with the same canonical form
AddedBefore(fn, key) ==
    \E k \in 1..Len(calls) : calls[k].fn = fn /\ _norm_user(calls[k].arg) = key

NonEmptyIdentity(x) == strip(_norm_user(x)) # <<>>

\* C11: after add(x) the store contains x; a second add of x, in any
\* spelling of the same canonical form, persists nothing more; and contains
\* on a missing backing store answers false.  (Stated for identities whose
\* canonical form is not empty.)
C11_AddThenContains ==
    [][(pc = "store" /\ calls' # calls) =>
         LET key == _norm_user(LastCall.arg)
         IN  /\ (LastCall.fn = "is_visited" /\ ~VISITED_EXISTS) => ret' = Some(FALSE)
             /\ (LastCall.fn = "add_to_visited" /\ NonEmptyIdentity(LastCall.arg)) =>
                  /\ is_visited(LastCall.arg, VISITED_FILE')
                  /\ (AddedBefore("add_to_visited", key) => VISITED_FILE' = VISITED_FILE)
             /\ (LastCall.fn = "add_to_timeouts" /\ NonEmptyIdentity(LastCall.arg)) =>
                  /\ is_visited(LastCall.arg, TIMEOUTS_FILE')
                  /\ (AddedBefore("add_to_timeouts", key) => TIMEOUTS_FILE' = TIMEOUTS_FILE)]_vars

(***************************************************************************)
(* Properties of the canonical forms (SpecCanon).                          *)
(***************************************************************************)
\* C12: canonicalization is idempotent and case-insensitive: the canonical
\* form of a canonical form is itself, a string and its lower-case spelling
\* have one canonical form, and "U/F", "f" and "F" are one identity.
C12_CanonIdempotent ==
    pc = "canon" =>
        /\ Len(calls) = 2 => Val(ret) = calls[2].arg
        /\ Len(calls) = 1 => Val(ret) = canon(calls[1].fn, lower(calls[1].arg))
        /\ _norm_user(<<"U", "/", "F">>) = _norm_user(<<"f">>)
        /\ _norm_user(<<"F">>) = _norm_user(<<"f">>)

(***************************************************************************)
(* Properties of the Hungarian filter (SpecLang).                          *)
(***************************************************************************)
Classified == pc = "lang" /\ calls # <<>>

Threshold == Val(args.filterhu)

\* C13: is_hungarian keeps a text iff the statistical score or the
\* dictionary score reaches the threshold; a backend that is not available
\* is reported with the score -1, which reaches no threshold of [0,1]; and
\* with no backend available the filter is never set up.
C13_KeepRule ==
    /\ pc = "lang" => ~(IsNone(detect_langs_func) /\ IsNone(hunspell_obj))
    /\ Classified =>
         /\ Val(ret).keep = (GE(Val(ret).ld_score, Threshold) \/ GE(Val(ret).hs_score, Threshold))
         /\ IsNone(detect_langs_func) => Val(ret).ld_score = MinusOne
         /\ IsNone(hunspell_obj) => Val(ret).hs_score = MinusOne
         /\ (IsNone(detect_langs_func) /\ Val(ret).keep) => GE(Val(ret).hs_score, Threshold)
         /\ (IsNone(hunspell_obj) /\ Val(ret).keep) => GE(Val(ret).ld_score, Threshold)

\* threshold 2/4, statistical score 3/4, dictionary score 0: kept
C13_Witness ==
    /\ Classified
    /\ Threshold = Frac(2, ScoreDen)
    /\ Val(ret).ld_score = Frac(3, ScoreDen)
    /\ ~IsNone(hunspell_obj) /\ Val(ret).hs_score = Zero
    /\ Val(ret).keep

\* shorter than the statistical detector's minimum and under five words
InsufficientEvidence(text) == text.chars < MinDetectLen /\ Len(text.words) < MinWords

ScoresAreZero ==
    /\ ~IsNone(detect_langs_func) => Val(ret).ld_score = Zero
    /\ ~IsNone(hunspell_obj) => Val(ret).hs_score = Zero

\* C14 as stated: for every threshold in [0,1], a text with insufficient
\* evidence gets the score 0 from every available backend and is dropped.
C14_ShortTextDropped ==
    (Classified /\ InsufficientEvidence(calls[1])) => (ScoresAreZero /\ ~Val(ret).keep)

\* C14 as amended: such a text gets the score 0 from every available
\* backend; it is dropped for every threshold above 0 and kept at the
\* threshold 0, which the score 0 reaches.
C14_ShortTextDroppedAboveZero ==
    (Classified /\ InsufficientEvidence(calls[1])) =>
        /\ ScoresAreZero
        /\ Val(ret).keep = SameFrac(Threshold, Zero)

\* a short text of four dictionary words that detect_langs would call
\* Hungarian for sure, both backends available, threshold 1/4: dropped
C14_Witness ==
    /\ Classified
    /\ calls[1].chars = MinDetectLen - 1
    /\ calls[1].words = <<"hit", "hit", "hit", "hit">>
    /\ calls[1].langs = [answer |-> "hu", prob |-> Frac(ScoreDen, ScoreDen)]
    /\ ~IsNone(detect_langs_func) /\ ~IsNone(hunspell_obj)
    /\ Threshold = Frac(1, ScoreDen)
    /\ ~Val(ret).keep

IsHit(w) == w = "hit"

IsRaise(w) == w = "raise"

\* C15: the dictionary score is 0 under five qualifying words; else it is
\* hits / (considered - errored) over the first 400 qualifying words, 0 when
\* every lookup raised; and it lies in [0,1].
C15_DictionaryRatio ==
    (Classified /\ ~IsNone(hunspell_obj)) =>
        LET words      == calls[1].words
            first      == SubSeq(words, 1, IF Len(words) < WordCap THEN Len(words) ELSE WordCap)
            hits       == Len(SelectSeq(first, IsHit))
            errored    == Len(SelectSeq(first, IsRaise))
            hs         == Val(ret).hs_score
        IN  /\ Len(words) < MinWords => hs = Zero
            /\ (Len(words) >= MinWords /\ errored = Len(first)) => hs = Zero
            /\ (Len(words) >= MinWords /\ errored < Len(first)) =>
                 SameFrac(hs, Frac(hits, Len(first) - errored))
            /\ GE(hs, Zero) /\ GE(Frac(1, 1), hs)

\* five words, one lookup raises, two hit: 2/4
C15_Witness ==
    /\ Classified
    /\ ~IsNone(hunspell_obj)
    /\ calls[1].words = <<"hit", "hit", "miss", "raise", "miss">>
    /\ Val(ret).hs_score = Frac(2, 4)

(***************************************************************************)
(* Properties of the configuration (SpecConfig).                           *)
(***************************************************************************)
BadThreshold ==
    /\ ~IsNone(args.filterhu)
    /\ (Val(args.filterhu).n < 0 \/ Val(args.filterhu).n > Val(args.filterhu).d)

\* a line of the usernames file that names no identity
NamesNobody(line) ==
    \/ strip(line) = <<>>
    \/ strip(line)[1] = "#"
    \/ strip(_norm_user(strip(line))) = <<>>

NoUsernames ==
    /\ ~IsNone(args.inputfile)
    /\ \A k \in 1..Len(Val(args.inputfile).lines) : NamesNobody(Val(args.inputfile).lines[k])

\* C16: a threshold outside [0,1], a requested filter with no backend, or a
\* usernames file with no identity ends the process before the loop: the
\* loop starts only with a threshold in [0,1] and a backend (if the filter is
\* requested) and with a username, and a process that has failed this way
\* has resolved and harvested nothing, has left every store and the output
\* directory as they were, and takes no further step.
C16_FatalBeforeHarvest ==
    [][/\ pc # "fatal"
       /\ pc = "main" =>
            /\ (BadThreshold \/ NoUsernames) => pc' = "fatal"
            /\ (pc' = "loop" /\ ~IsNone(args.filterhu)) =>
                 ~(IsNone(detect_langs_func') /\ IsNone(hunspell_obj'))
            /\ pc' = "loop" => users' # <<>>
            /\ pc' \in {"loop", "fatal"}
            /\ pc' = "fatal" =>
                 /\ UNCHANGED <<storeVars, VISITED_SUBS_FILE, NEW_SUBS_FILE, outfiles, open_files>>
                 /\ \A k \in 1..Len(outcome') : outcome'[k] = "none"]_vars

\* a threshold above 1 with a processed store of one entry: fatal, store kept
C16_Witness ==
    /\ pc = "fatal"
    /\ args.filterhu = Some(Frac(ScoreDen + 1, ScoreDen))
    /\ VISITED_FILE = << <<"f">> >>
    /\ outfiles = << >>

(***************************************************************************)
(* Properties of the output streams and of the stores (Spec).              *)
(***************************************************************************)
\* C17: when download_user_activity hands control back to the loop, on any
\* path, no stream is open; and streams are opened only at the start of the
\* harvest of an identity, when none is open.
C17_StreamsClosedOnReturn ==
    [][/\ (InDownload /\ pc' = "loop") => open_files' = {}
       /\ ~(open_files' \subseteq open_files) => (pc = "open" /\ open_files = {})]_vars

(***************************************************************************)
(* Properties of one harvest (SpecHarvest).                                *)
(***************************************************************************)
\* the one listing the service serves in this run
Listing == CHOOSE fd \in remote : TRUE

\* the category of the item is on the exclusion list, in some spelling
OnExclusionList(item) ==
    \E k \in 1..Len(VISITED_SUBS_FILE) :
        /\ strip(VISITED_SUBS_FILE[k]) # <<>>
        /\ strip(VISITED_SUBS_FILE[k])[1] # "#"
        /\ _norm_sub(VISITED_SUBS_FILE[k]) = _norm_sub(item.sub)

Wanted(k) ==
    /\ IsNone(args.after) \/ Val(args.after) <= Listing[k].t
    /\ IsNone(args.before) \/ Listing[k].t <= Val(args.before)
    /\ ~OnExclusionList(Listing[k])

\* the header, then one block for each wanted item, in the order of the listing
ExpectedOutput ==
    LET keep == SelectSeq(Positions(Listing), Wanted)
    IN  <<Header(<<"f">>)>> \o [j \in 1..Len(keep) |-> Block(Listing[keep[j]], keep[j])]

\* C18: with the filter off, after a completed harvest the posts file holds
\* exactly the items of the listing that are inside the window and not on
\* the exclusion list, each once, in the order of the listing; likewise the
\* comments file.
C18_OutputExact ==
    (pc \in {"loop", "done"} /\ outcome[1] = "completed") =>
        /\ outfiles[OutPath(<<"f">>, "posts")] = ExpectedOutput
        /\ outfiles[OutPath(<<"f">>, "comments")] = ExpectedOutput

\* three items: one in the window and written, one in the window and on the
\* exclusion list, one older than the window
C18_Witness ==
    /\ pc = "done" /\ outcome[1] = "completed"
    /\ Listing = <<Item(3, <<>>), Item(2, <<"A">>), Item(1, <<>>)>>
    /\ args.after = Some(2) /\ args.before = None
    /\ VISITED_SUBS_FILE = << <<"r", "/", "A">> >>
    /\ outfiles[OutPath(<<"f">>, "posts")] = <<Header(<<"f">>), Block(Item(3, <<>>), 1)>>

\* new is old, or old followed by one more line
AppendedTo(old, new) ==
    \/ new = old
    \/ Len(new) = Len(old) + 1 /\ SubSeq(new, 1, Len(old)) = old

\* C19: in every step each of the processed, failed and discovery stores is
\* what it was, followed by at most one new line; the exclusion list is
\* never written, and the exclusion set is not changed once it is loaded.
C19_StoresAppendOnly ==
    [][/\ AppendedTo(VISITED_FILE, VISITED_FILE')
       /\ AppendedTo(TIMEOUTS_FILE, TIMEOUTS_FILE')
       /\ AppendedTo(NEW_SUBS_FILE, NEW_SUBS_FILE')
       /\ VISITED_SUBS_FILE' = VISITED_SUBS_FILE
       /\ pc # "main" => visited_subs' = visited_subs]_vars

\* an identity that a former run left in the failed store completes: it is
\* appended to the processed store and is still in the failed store
C19_Witness ==
    /\ pc = "loop" /\ i = 2
    /\ outcome[1] = "completed"
    /\ users[1] = <<"U", "/", "F">>
    /\ VISITED_FILE = << <<"f">> >>
    /\ TIMEOUTS_FILE = << <<"f">> >>
    /\ visited_subs = {<<"a">>}

(***************************************************************************)
(* Properties of the discovery log in one harvest (SpecFilter).            *)
(***************************************************************************)
\* some output stream holds a whole item of the category
HasItem(category) ==
    \E path \in DOMAIN outfiles : \E k \in 1..Len(outfiles[path]) :
        /\ outfiles[path][k].kind = "item"
        /\ _norm_sub(outfiles[path][k].sub) = category

\* the loop body has handled the yielded item and the loop goes on
BodyDone == pc = "iter" /\ pstate = "yielded" /\ pc' = "iter"

YieldedIsExcluded == _norm_sub(feed[pos].sub) \in visited_subs

\* an excluded item is counted as excluded, never passed to the filter, and
\* neither an excluded nor a dropped item is logged or written
NoLogWithoutKeep ==
    /\ (BodyDone /\ YieldedIsExcluded) => stats' = Bump(stats, cls, "excluded")
    /\ (BodyDone /\ stats'[cls].saved = stats[cls].saved) =>
         UNCHANGED <<NEW_SUBS_FILE, appended, outfiles>>

\* the log grows only by the category of the yielded item, which is kept
LogOnlyOnKeep ==
    NEW_SUBS_FILE' # NEW_SUBS_FILE =>
        /\ pc = "iter" /\ pstate = "yielded"
        /\ ~YieldedIsExcluded
        /\ NEW_SUBS_FILE' = Append(NEW_SUBS_FILE, _norm_sub(feed[pos].sub))

\* C20: a category is appended only when an item of it is kept and
\* written, so every appended category is non-empty, is not excluded and has
\* an item in an output stream of the run; an excluded or a dropped item
\* causes no append, and no excluded item reaches the filter.
C20_LoggedMeansWritten ==
    /\ [](\A c \in Range(appended) : c # <<>> /\ c \notin visited_subs /\ HasItem(c))
    /\ [][NoLogWithoutKeep /\ LogOnlyOnKeep]_vars

(***************************************************************************)
(* Repeated identities in one queue (Spec).                                *)
(***************************************************************************)
\* queue entries j < k are spellings of one identity
SameIdentity(j, k) ==
    /\ j < k
    /\ strip(users[j]) # <<>>
    /\ _norm_user(users[j]) = _norm_user(users[k])

\* entry k is the next occurrence of the identity of entry j
NextOccurrence(j, k) ==
    /\ SameIdentity(j, k)
    /\ \A m \in (j + 1)..(k - 1) : ~SameIdentity(j, m)

\* download_user_activity was called for entry k and has ended
Attempted(k) == outcome[k] \in {"skipped_resolution", "completed", "failed"}

\* C21: without --reset-visited, every occurrence of an identity after a
\* completed one is skipped as already processed and never enters
\* download_user_activity, so no identity completes twice in one run; the
\* next occurrence after a failed one is attempted, never skipped as already
\* processed.
C21_CompletedOncePerRun ==
    ~args.reset_visited =>
        \A j, k \in 1..Len(users) :
            /\ (SameIdentity(j, k) /\ outcome[j] = "completed") =>
                  /\ outcome[k] \in {"none", "skipped_processed"}
                  /\ ~(InDownload /\ i = k)
            /\ (NextOccurrence(j, k) /\ outcome[j] = "failed" /\ outcome[k] # "none") =>
                  Attempted(k)

\* "f" is harvested to completion, then its spelling "U/F" is skipped
C21_Witness ==
    /\ ~args.reset_visited
    /\ users = << <<"f">>, <<"U", "/", "F">> >>
    /\ outcome = <<"completed", "skipped_processed">>
    /\ Occurrences(<<"f">>, VISITED_FILE) = 1

(***************************************************************************)
(* The cap and the counters of one class (SpecCap).                        *)
(***************************************************************************)
\* items of the running class the loop body has written, passed by as
\* excluded, or dropped by the filter
Handled == stats[cls].saved + stats[cls].excluded + stats[cls].dropped

\* the items written to the stream of class c
WrittenItems(c) ==
    LET path == OutPath(_norm_user(users[1]), c)
    IN  IF path \in DOMAIN outfiles
        THEN Len(SelectSeq(outfiles[path], LAMBDA b : b.kind = "item"))
        ELSE 0

\* every item the iterator emitted is written, excluded or dropped; the one
\* just yielded is still in the loop body
EmittedAreHandled ==
    pc = "iter" =>
        /\ Len(emitted) = Handled + (IF pstate = "yielded" THEN 1 ELSE 0)
        /\ count = Handled
        /\ stats[cls].saved = WrittenItems(cls)

\* the written items of a class are never more than its cap (a cap k >= 0)
WrittenWithinCap ==
    (pc = "iter" /\ ~IsNone(ClassLimit) /\ Val(ClassLimit) >= 0)
        => stats[cls].saved <= Val(ClassLimit)

\* C22: the cap counts the items the iterator emits, before the exclusion
\* list and the filter: written + excluded + dropped items are the emitted
\* ones, so the written items of a class never exceed its cap (and can be
\* fewer while items that would be written remain in the listing).
C22_CapCountsCandidates == EmittedAreHandled /\ WrittenWithinCap

====
